---- MODULE Spec2Model ----
(***************************************************************************)
(* MiniGramm: a photo feed with three reaction counters per post.          *)
(*                                                                         *)
(* Three deployments are modelled, and a behaviour is one of them:         *)
(*   "memory"   the browser-only AppController that keeps the feed in an   *)
(*              array (src/src/controllers/AppController.ts);              *)
(*   "server"   the Express server over the Mongoose PostModel             *)
(*              (src/unnamed/part_004), called by arbitrary HTTP callers;  *)
(*   "browser"  the same server called by the one browser client that      *)
(*              talks to it with fetch (src/unnamed/part_000).             *)
(***************************************************************************)
EXTENDS Integers, Sequences, FiniteSets, TLC

VARIABLES
    variant,    \* which deployment runs: "memory", "server" or "browser"
    posts,      \* AppController.posts (memory): sequence of Post
    nextId,     \* AppController.nextId (memory)
    bound,      \* AppView.createHandler / reactHandler are set
    message,    \* AppView.message text ("" when cleared)
    rendered,   \* the list last passed to AppView.render
    form,       \* the values of the form's two inputs
    calls,      \* memory: handler invocations so far (bounds the run)
    srv,        \* server: position of start()
    db,         \* server: the "posts" collection, in natural order
    reqs,       \* server: one record per connection slot
    nreq,       \* server: requests accepted so far (bounds the run)
    acked,      \* successful react calls per post id and kind
    cli         \* client: one record per handler invocation slot

vars == <<variant, posts, nextId, bound, message, rendered, form, calls,
          srv, db, reqs, nreq, acked, cli>>

memVars == <<posts, nextId, calls>>
viewVars == <<bound, message, rendered, form>>
srvVars == <<srv, db, reqs, nreq>>

----------------------------------------------------------------------------
(* Bounds of the model *)

MaxCalls == 4
MaxReq == 3
MaxDocs == 2
MaxSlots == 2
MaxClients == 2

\* The server's connections and the client's handler invocations that can
\* be in flight together.
Slots == 1 .. MaxSlots
Clients == 1 .. MaxClients

----------------------------------------------------------------------------
(* Values *)

ReactionTypes == {"like", "wow", "laugh"}

ZeroReactions == [like |-> 0, wow |-> 0, laugh |-> 0]

\* What a user can type into the two inputs (after trim).
ImageUrls == {"", "https://x/a.png", "https://x/b.png"}
Captions == {"", "hello"}

\* JavaScript's  !s  for a string.
Falsy(s) == s = ""

MsgRequired == "Image URL and caption are required!"
MsgCreateFailed == "Failed to create post."

Post(id, imageUrl, caption, reactions) ==
    [id |-> id, imageUrl |-> imageUrl, caption |-> caption,
     reactions |-> reactions]

\* Mutant: the increment is applied to every counter.
Mut_addReaction_All(reactions, type) ==
    [k \in (DOMAIN reactions) \cup {type} |->
        (IF k \in DOMAIN reactions THEN reactions[k] ELSE 0) + 1]

\* this.reactions[type] = (this.reactions[type] ?? 0) + 1
addReaction(reactions, type) ==
    [k \in (DOMAIN reactions) \cup {type} |->
        IF k = type
        THEN (IF k \in DOMAIN reactions THEN reactions[k] ELSE 0) + 1
        ELSE reactions[k]]

\* Array.prototype.find: the first element satisfying the test, as an index
\* (0 when there is none).
FindIndex(seq, postId) ==
    IF \E i \in 1 .. Len(seq) : seq[i].id = postId
    THEN CHOOSE i \in 1 .. Len(seq) :
            /\ seq[i].id = postId
            /\ \A j \in 1 .. (i - 1) : seq[j].id /= postId
    ELSE 0

NoAcks == [id \in {} |-> ZeroReactions]

Ack(a, id, kind) ==
    LET cur == IF id \in DOMAIN a THEN a[id] ELSE ZeroReactions
    IN  [i \in (DOMAIN a) \cup {id} |->
            IF i = id THEN [cur EXCEPT ![kind] = @ + 1] ELSE a[i]]

----------------------------------------------------------------------------
(* The in-memory controller *)

\* The two demo posts, their ids taken from this.nextId++.
seed(n) ==
    <<Post(n,
           "https://plus.unsplash.com/premium_photo-1700838996339-de3bd9663344",
           "Decorated christmas tree",
           [like |-> 8, wow |-> 2, laugh |-> 1]),
      Post(n + 1,
           "https://images.unsplash.com/photo-1619911112608-54e938faef00",
           "Neige a Paris",
           [like |-> 5, wow |-> 1, laugh |-> 0])>>

\* AppController.init(): bind the handlers, seed, render.
MemInit ==
    /\ variant = "memory"
    /\ ~bound
    /\ bound' = TRUE
    /\ posts' = seed(nextId)
    /\ nextId' = nextId + 2
    /\ rendered' = posts'
    /\ UNCHANGED <<variant, message, form, calls, srvVars, acked, cli>>

\* Mutant: only the caption is validated.
Mut_MemHandleCreatePost_CaptionOnly(imageUrl, caption) ==
    /\ variant = "memory"
    /\ bound
    /\ calls < MaxCalls
    /\ calls' = calls + 1
    /\ IF Falsy(caption)
       THEN /\ message' = MsgRequired
            /\ form' = <<imageUrl, caption>>
            /\ UNCHANGED <<posts, nextId, rendered>>
       ELSE /\ message' = ""
            /\ posts' = <<Post(nextId, imageUrl, caption, ZeroReactions)>> \o posts
            /\ nextId' = nextId + 1
            /\ rendered' = posts'
            /\ form' = <<"", "">>
    /\ UNCHANGED <<variant, bound, srvVars, acked, cli>>

\* Mutant: the new post takes nextId without incrementing it.
Mut_MemHandleCreatePost_NoIncrement(imageUrl, caption) ==
    /\ variant = "memory"
    /\ bound
    /\ calls < MaxCalls
    /\ calls' = calls + 1
    /\ IF Falsy(imageUrl) \/ Falsy(caption)
       THEN /\ message' = MsgRequired
            /\ form' = <<imageUrl, caption>>
            /\ UNCHANGED <<posts, nextId, rendered>>
       ELSE /\ message' = ""
            /\ posts' = <<Post(nextId, imageUrl, caption, ZeroReactions)>> \o posts
            /\ nextId' = nextId
            /\ rendered' = posts'
            /\ form' = <<"", "">>
    /\ UNCHANGED <<variant, bound, srvVars, acked, cli>>

\* Mutant: the feed is replaced by the new post instead of being prepended to.
Mut_MemHandleCreatePost_Replace(imageUrl, caption) ==
    /\ variant = "memory"
    /\ bound
    /\ calls < MaxCalls
    /\ calls' = calls + 1
    /\ IF Falsy(imageUrl) \/ Falsy(caption)
       THEN /\ message' = MsgRequired
            /\ form' = <<imageUrl, caption>>
            /\ UNCHANGED <<posts, nextId, rendered>>
       ELSE /\ message' = ""
            /\ posts' = <<Post(nextId, imageUrl, caption, ZeroReactions)>>
            /\ nextId' = nextId + 1
            /\ rendered' = posts'
            /\ form' = <<"", "">>
    /\ UNCHANGED <<variant, bound, srvVars, acked, cli>>

\* Mutant: the new post is added at the end of the feed.
Mut_MemHandleCreatePost_Append(imageUrl, caption) ==
    /\ variant = "memory"
    /\ bound
    /\ calls < MaxCalls
    /\ calls' = calls + 1
    /\ IF Falsy(imageUrl) \/ Falsy(caption)
       THEN /\ message' = MsgRequired
            /\ form' = <<imageUrl, caption>>
            /\ UNCHANGED <<posts, nextId, rendered>>
       ELSE /\ message' = ""
            /\ posts' = Append(posts, Post(nextId, imageUrl, caption, ZeroReactions))
            /\ nextId' = nextId + 1
            /\ rendered' = posts'
            /\ form' = <<"", "">>
    /\ UNCHANGED <<variant, bound, srvVars, acked, cli>>

\* The form's submit listener calling AppController.handleCreatePost.
MemHandleCreatePost(imageUrl, caption) ==
    /\ variant = "memory"
    /\ bound
    /\ calls < MaxCalls
    /\ calls' = calls + 1
    /\ IF Falsy(imageUrl) \/ Falsy(caption)
       THEN /\ message' = MsgRequired
            /\ form' = <<imageUrl, caption>>
            /\ UNCHANGED <<posts, nextId, rendered>>
       ELSE /\ message' = ""
            /\ posts' = <<Post(nextId, imageUrl, caption, ZeroReactions)>> \o posts
            /\ nextId' = nextId + 1
            /\ rendered' = posts'
            /\ form' = <<"", "">>
    /\ UNCHANGED <<variant, bound, srvVars, acked, cli>>

\* A reaction button's click listener calling AppController.handleReact.
MemHandleReact(postId, reaction) ==
    /\ variant = "memory"
    /\ bound
    /\ calls < MaxCalls
    /\ calls' = calls + 1
    /\ LET i == FindIndex(posts, postId)
       IN  IF i = 0
           THEN UNCHANGED <<posts, rendered, acked>>
           ELSE /\ posts' = [posts EXCEPT
                                ![i].reactions = addReaction(@, reaction)]
                /\ rendered' = posts'
                /\ acked' = Ack(acked, postId, reaction)
    /\ UNCHANGED <<variant, nextId, bound, message, form, srvVars, cli>>

----------------------------------------------------------------------------
(* The persisted store: Mongoose's PostModel over the "posts" collection *)

\* ObjectId.toString(): the 24 hexadecimal digits of the n-th identifier the
\* store hands out.  The last one is never handed out within the bounds.
OidHex ==
    <<"65f000000000000000000001", "65f000000000000000000002",
      "65f000000000000000000003", "65f000000000000000000004">>

toString(oid) == OidHex[oid]

\* Mongoose casts the :id string of a query to an ObjectId, and the cast
\* fails (CastError) for a string that is not 24 hexadecimal digits.
IsObjectIdString(s) == \E n \in 1 .. Len(OidHex) : OidHex[n] = s

CastObjectId(s) == CHOOSE n \in 1 .. Len(OidHex) : OidHex[n] = s

NoDoc == [_id |-> 0]

\* Mutant: the schema gives laugh no default.
Mut_NewDoc_NoLaughDefault(oid, imageUrl, caption) ==
    [_id |-> oid, imageUrl |-> imageUrl, caption |-> caption,
     reactions |-> [like |-> 0, wow |-> 0], __v |-> 0]

\* PostSchema: the two required strings and the three counters, each with
\* default 0; Mongoose adds the version key __v.
NewDoc(oid, imageUrl, caption) ==
    [_id |-> oid, imageUrl |-> imageUrl, caption |-> caption,
     reactions |-> [like |-> 0, wow |-> 0, laugh |-> 0], __v |-> 0]

\* PostModel.findById on the collection: the document or NoDoc (null).
findById(coll, oid) ==
    IF \E i \in 1 .. Len(coll) : coll[i]._id = oid
    THEN coll[CHOOSE i \in 1 .. Len(coll) : coll[i]._id = oid]
    ELSE NoDoc

\* Mutant: save writes the handler's whole reactions object.
Mut_save_WholeReactions(coll, doc, kind) ==
    [i \in 1 .. Len(coll) |->
        IF coll[i]._id = doc._id
        THEN [coll[i] EXCEPT !.reactions = doc.reactions]
        ELSE coll[i]]

\* doc.save() after  doc.reactions[kind] = ... : Mongoose sends the modified
\* path only, { $set: { "reactions.<kind>": value } }, for the document's _id.
save(coll, doc, kind) ==
    [i \in 1 .. Len(coll) |->
        IF coll[i]._id = doc._id
        THEN [coll[i] EXCEPT !.reactions[kind] = doc.reactions[kind]]
        ELSE coll[i]]

\* What the collection can hold when the server starts: nothing, or a post
\* an earlier run of the server created.
StoredAtStart == {<<>>, <<NewDoc(1, "https://x/a.png", "hello")>>}

\* Mutant: the document itself is sent, its _id as a string.
Mut_DTO_WholeDocument(doc) == [doc EXCEPT !._id = toString(doc._id)]

\* The PostDTO the three routes build from a document.
DTO(doc) ==
    [_id |-> toString(doc._id), imageUrl |-> doc.imageUrl,
     caption |-> doc.caption, reactions |-> doc.reactions]

DTOs(docs) == [i \in 1 .. Len(docs) |-> DTO(docs[i])]

----------------------------------------------------------------------------
(* The Express server *)

MsgMissing == [message |-> "Missing imageUrl or caption"]
MsgInvalid == [message |-> "Invalid reaction type"]
MsgNotFound == [message |-> "Post not found"]
MsgServerError == [message |-> "Server error"]

EmptyBody == <<>>

\* req.body.<field>, undefined when the JSON body has no such field.
Has(body, f) == f \in DOMAIN body

\* JavaScript's  !req.body.<field>  for a missing or string field.
FalsyField(body, f) == ~Has(body, f) \/ body[f] = ""

\* Mutant: the kind is only checked to be present.
Mut_ValidReaction_Present(body) == Has(body, "reaction")

\* ["like", "wow", "laugh"].includes(reaction)
ValidReaction(body) == Has(body, "reaction") /\ body["reaction"] \in ReactionTypes

\* The JSON bodies and :id parameters an HTTP caller may send.
CreateBodies ==
    {EmptyBody, [imageUrl |-> "https://x/a.png"]}
    \cup {[imageUrl |-> u, caption |-> c] :
            u \in {"", "https://x/b.png"}, c \in Captions}
    \cup {[imageUrl |-> "https://x/a.png", caption |-> "hello",
           reactions |-> [like |-> 7, wow |-> 7, laugh |-> 7]]}

ReactBodies == {EmptyBody} \cup {[reaction |-> k] : k \in ReactionTypes \cup {"love"}}

ParamIds == {toString(1), toString(2), toString(Len(OidHex)), "unknown-id"}

IdleReq ==
    [route |-> "none", id |-> "", body |-> EmptyBody, from |-> 0,
     pc |-> "idle", doc |-> NoDoc, ops |-> 0, status |-> 0,
     out |-> <<>>, sent |-> 0, err |-> ""]

NewReq(route, id, body, from) ==
    [IdleReq EXCEPT !.route = route, !.id = id, !.body = body, !.from = from]

\* res.status(status).json(out)
Respond(r, status, out) ==
    [r EXCEPT !.pc = "done", !.status = status, !.out = out, !.sent = @ + 1]

\* catch (err) { console.error(err); res.status(500).json(...) }
Catch(r, err) == [Respond(r, 500, MsgServerError) EXCEPT !.err = err]

\* The handler awaits a store call.
Await(r, pc) == [r EXCEPT !.pc = pc, !.ops = @ + 1]

\* A slot can take a new request: it is unused, or its response was sent and,
\* when the browser client made the request, read.  A request takes the
\* first such slot.
Free(s) == reqs[s].pc \in {"idle", "done"} /\ reqs[s].from = 0

FirstFree(s) == Free(s) /\ \A t \in 1 .. (s - 1) : ~Free(t)

\* The slots with r in slot s.  Of the responses already sent to HTTP
\* callers the latest only is kept: when r is a response, the slots of the
\* earlier ones are cleared.
Put(s, r) ==
    [t \in Slots |->
        IF t = s THEN r
        ELSE IF r.pc = "done" /\ reqs[t].pc = "done" /\ reqs[t].from = 0
             THEN IdleReq
             ELSE reqs[t]]

PendingCreates == Cardinality({s \in Slots : reqs[s].pc = "create"})

\* start(): await connectDB(), then register the routes and listen.
StartListen ==
    /\ variant \in {"server", "browser"}
    /\ srv = "connecting"
    /\ srv' = "listening"
    /\ UNCHANGED <<variant, memVars, viewVars, db, reqs, nreq, acked, cli>>

\* connectDB() rejects: start() stops before any route is registered.
StartFail ==
    /\ variant \in {"server", "browser"}
    /\ srv = "connecting"
    /\ srv' = "failed"
    /\ UNCHANGED <<variant, memVars, viewVars, db, reqs, nreq, acked, cli>>

\* GET /api/posts up to its first await: PostModel.find().lean() is called.
ListReceive(from) ==
    Await(NewReq("list", "", EmptyBody, from), "find")

\* POST /api/posts up to its first await: 400, or PostModel.create is called.
CreateReceive(body, from) ==
    LET r == NewReq("create", "", body, from)
    IN  IF FalsyField(body, "imageUrl") \/ FalsyField(body, "caption")
        THEN Respond(r, 400, MsgMissing)
        ELSE Await(r, "create")

\* POST /api/posts/:id/react up to its first await: 400, or
\* PostModel.findById is called.
ReactReceive(id, body, from) ==
    LET r == NewReq("react", id, body, from)
    IN  IF ~ValidReaction(body)
        THEN Respond(r, 400, MsgInvalid)
        ELSE Await(r, "findById")

srvFrame == <<variant, memVars, viewVars, srv, cli>>

Serving == variant \in {"server", "browser"}

\* Mutant: the route answers 404 when the collection holds no post.
Mut_ListResolve_EmptyIsError(s, ok) ==
    /\ Serving
    /\ reqs[s].pc = "find"
    /\ reqs' = Put(s, IF ~ok THEN Catch(reqs[s], "StoreError")
                       ELSE IF db = <<>> THEN Respond(reqs[s], 404, MsgNotFound)
                       ELSE Respond(reqs[s], 200, DTOs(db)))
    /\ UNCHANGED <<db, nreq, acked, srvFrame>>

\* PostModel.find().lean() settles.
ListResolve(s, ok) ==
    /\ Serving
    /\ reqs[s].pc = "find"
    /\ reqs' = Put(s, IF ok THEN Respond(reqs[s], 200, DTOs(db))
                       ELSE Catch(reqs[s], "StoreError"))
    /\ UNCHANGED <<db, nreq, acked, srvFrame>>

\* Mutant: the whole request body is passed to PostModel.create.
Mut_CreateResolve_WholeBody(s, ok) ==
    /\ Serving
    /\ reqs[s].pc = "create"
    /\ IF ok
       THEN LET new == NewDoc(Len(db) + 1, reqs[s].body["imageUrl"],
                              reqs[s].body["caption"])
                doc == IF Has(reqs[s].body, "reactions")
                       THEN [new EXCEPT !.reactions = reqs[s].body["reactions"]]
                       ELSE new
            IN  /\ db' = Append(db, doc)
                /\ reqs' = Put(s, Respond([reqs[s] EXCEPT !.doc = doc],
                                          201, DTO(doc)))
       ELSE /\ reqs' = Put(s, Catch(reqs[s], "StoreError"))
            /\ UNCHANGED db
    /\ UNCHANGED <<nreq, acked, srvFrame>>

\* PostModel.create({ imageUrl, caption }) settles.
CreateResolve(s, ok) ==
    /\ Serving
    /\ reqs[s].pc = "create"
    /\ IF ok
       THEN LET doc == NewDoc(Len(db) + 1, reqs[s].body["imageUrl"],
                              reqs[s].body["caption"])
            IN  /\ db' = Append(db, doc)
                /\ reqs' = Put(s, Respond([reqs[s] EXCEPT !.doc = doc],
                                          201, DTO(doc)))
       ELSE /\ reqs' = Put(s, Catch(reqs[s], "StoreError"))
            /\ UNCHANGED db
    /\ UNCHANGED <<nreq, acked, srvFrame>>

\* Mutant: the 404 is sent without returning, so the handler goes on to
\* doc.reactions of null, throws, and its catch responds again.
Mut_FindByIdResolve_NoReturn(s, ok) ==
    /\ Serving
    /\ reqs[s].pc = "findById"
    /\ LET r == reqs[s]
       IN  reqs' = Put(s,
             IF ~IsObjectIdString(r.id) THEN Catch(r, "CastError")
             ELSE IF ~ok THEN Catch(r, "StoreError")
             ELSE LET doc == findById(db, CastObjectId(r.id))
                  IN  IF doc = NoDoc
                      THEN Catch(Respond(r, 404, MsgNotFound), "TypeError")
                      ELSE Await([r EXCEPT !.doc =
                                    [doc EXCEPT !.reactions =
                                       addReaction(@, r.body["reaction"])]],
                                 "save"))
    /\ UNCHANGED <<db, nreq, acked, srvFrame>>

\* PostModel.findById(id) settles; on a document the handler adds one to the
\* counter of its copy and calls doc.save().
FindByIdResolve(s, ok) ==
    /\ Serving
    /\ reqs[s].pc = "findById"
    /\ LET r == reqs[s]
       IN  reqs' = Put(s,
             IF ~IsObjectIdString(r.id) THEN Catch(r, "CastError")
             ELSE IF ~ok THEN Catch(r, "StoreError")
             ELSE LET doc == findById(db, CastObjectId(r.id))
                  IN  IF doc = NoDoc
                      THEN Respond(r, 404, MsgNotFound)
                      ELSE Await([r EXCEPT !.doc =
                                    [doc EXCEPT !.reactions =
                                       addReaction(@, r.body["reaction"])]],
                                 "save"))
    /\ UNCHANGED <<db, nreq, acked, srvFrame>>

\* Mutant: the write reaches the collection although doc.save() rejects.
Mut_SaveResolve_WriteOnFailure(s, ok) ==
    /\ Serving
    /\ reqs[s].pc = "save"
    /\ db' = save(db, reqs[s].doc, reqs[s].body["reaction"])
    /\ IF ok
       THEN /\ reqs' = Put(s, Respond(reqs[s], 200, DTO(reqs[s].doc)))
            /\ acked' = Ack(acked, reqs[s].doc._id, reqs[s].body["reaction"])
       ELSE /\ reqs' = Put(s, Catch(reqs[s], "StoreError"))
            /\ UNCHANGED acked
    /\ UNCHANGED <<nreq, srvFrame>>

\* doc.save() settles.
SaveResolve(s, ok) ==
    /\ Serving
    /\ reqs[s].pc = "save"
    /\ IF ok
       THEN /\ db' = save(db, reqs[s].doc, reqs[s].body["reaction"])
            /\ reqs' = Put(s, Respond(reqs[s], 200, DTO(reqs[s].doc)))
            /\ acked' = Ack(acked, reqs[s].doc._id, reqs[s].body["reaction"])
       ELSE /\ reqs' = Put(s, Catch(reqs[s], "StoreError"))
            /\ UNCHANGED <<db, acked>>
    /\ UNCHANGED <<nreq, srvFrame>>

\* Mutant: the routes are registered and listen is called without awaiting
\* connectDB().
Mut_CanRequest_BeforeConnect(s) ==
    /\ variant = "server"
    /\ FirstFree(s)
    /\ nreq < MaxReq

\* Some HTTP caller other than the browser client can have a request taken.
CanRequest(s) ==
    /\ variant = "server"
    /\ srv = "listening"
    /\ FirstFree(s)
    /\ nreq < MaxReq

HttpList(s) ==
    /\ CanRequest(s)
    /\ reqs' = Put(s, ListReceive(0))
    /\ nreq' = nreq + 1
    /\ UNCHANGED <<db, acked, srvFrame>>

HttpCreate(s, body) ==
    /\ CanRequest(s)
    /\ Len(db) + PendingCreates < MaxDocs
    /\ reqs' = Put(s, CreateReceive(body, 0))
    /\ nreq' = nreq + 1
    /\ UNCHANGED <<db, acked, srvFrame>>

HttpReact(s, id, body) ==
    /\ CanRequest(s)
    /\ reqs' = Put(s, ReactReceive(id, body, 0))
    /\ nreq' = nreq + 1
    /\ UNCHANGED <<db, acked, srvFrame>>

----------------------------------------------------------------------------
(* The browser client of the server: AppController over fetch *)

IdleCall == [op |-> "none", pc |-> "idle", slot |-> 0]

\* res.ok
Ok(status) == status \in 200 .. 299

\* docs.map(doc => new Post(doc._id.toString(), ...)) in loadPosts
FromDTOs(docs) ==
    [i \in 1 .. Len(docs) |->
        Post(docs[i]._id, docs[i].imageUrl, docs[i].caption, docs[i].reactions)]

\* An invocation slot is not in the middle of a handler; a handler
\* invocation takes the first such slot.
Resting(c) == cli[c].pc \in {"idle", "done", "threw"}

FirstResting(c) == Resting(c) /\ \A d \in 1 .. (c - 1) : ~Resting(d)

\* The user can act on the page, which the listening server serves.
CanCall(c, s) ==
    /\ variant = "browser"
    /\ srv = "listening"
    /\ FirstResting(c)
    /\ FirstFree(s)
    /\ nreq < MaxReq

\* AppController.init(): bind the handlers, then loadPosts() up to its fetch.
CliInit(c, s) ==
    /\ CanCall(c, s)
    /\ ~bound
    /\ bound' = TRUE
    /\ reqs' = Put(s, ListReceive(c))
    /\ nreq' = nreq + 1
    /\ cli' = [cli EXCEPT ![c] = [op |-> "init", pc |-> "load", slot |-> s]]
    /\ UNCHANGED <<variant, memVars, message, rendered, form, srv, db, acked>>

\* handleCreatePost up to its first await (or its early return).
CliHandleCreatePost(c, s, imageUrl, caption) ==
    /\ CanCall(c, s)
    /\ bound
    /\ form' = <<imageUrl, caption>>
    /\ IF Falsy(imageUrl) \/ Falsy(caption)
       THEN /\ message' = MsgRequired
            /\ cli' = [cli EXCEPT ![c] = [op |-> "create", pc |-> "done", slot |-> 0]]
            /\ UNCHANGED <<reqs, nreq>>
       ELSE /\ Len(db) + PendingCreates < MaxDocs
            /\ message' = ""
            /\ reqs' = Put(s, CreateReceive([imageUrl |-> imageUrl,
                                              caption |-> caption], c))
            /\ nreq' = nreq + 1
            /\ cli' = [cli EXCEPT ![c] = [op |-> "create", pc |-> "post", slot |-> s]]
    /\ UNCHANGED <<variant, memVars, bound, rendered, srv, db, acked>>

\* handleReact up to its first await; the click is on a button of a rendered post.
CliHandleReact(c, s, postId, reaction) ==
    /\ CanCall(c, s)
    /\ bound
    /\ reqs' = Put(s, ReactReceive(postId, [reaction |-> reaction], c))
    /\ nreq' = nreq + 1
    /\ cli' = [cli EXCEPT ![c] = [op |-> "react", pc |-> "post", slot |-> s]]
    /\ UNCHANGED <<variant, memVars, viewVars, srv, db, acked>>

\* Mutant: the form is reset also when the create response is not ok.
Mut_CliPosted_ResetOnFailure(c) ==
    /\ variant = "browser"
    /\ cli[c].pc = "post"
    /\ reqs[cli[c].slot].pc = "done"
    /\ LET s == cli[c].slot
       IN  IF Ok(reqs[s].status)
           THEN /\ reqs' = Put(s, ListReceive(c))
                /\ nreq' = nreq + 1
                /\ cli' = [cli EXCEPT ![c].pc = "load"]
                /\ UNCHANGED <<message, form>>
           ELSE /\ reqs' = Put(s, [reqs[s] EXCEPT !.from = 0])
                /\ cli' = [cli EXCEPT ![c].pc = "done", ![c].slot = 0]
                /\ message' = IF cli[c].op = "create" THEN MsgCreateFailed ELSE message
                /\ form' = IF cli[c].op = "create" THEN <<"", "">> ELSE form
                /\ UNCHANGED nreq
    /\ UNCHANGED <<variant, memVars, bound, rendered, srv, db, acked>>

\* The POST's response arrives: report and return when it is not ok, else
\* loadPosts() up to its fetch (on the connection the response came on).
CliPosted(c) ==
    /\ variant = "browser"
    /\ cli[c].pc = "post"
    /\ reqs[cli[c].slot].pc = "done"
    /\ LET s == cli[c].slot
       IN  IF Ok(reqs[s].status)
           THEN /\ reqs' = Put(s, ListReceive(c))
                /\ nreq' = nreq + 1
                /\ cli' = [cli EXCEPT ![c].pc = "load"]
                /\ UNCHANGED message
           ELSE /\ reqs' = Put(s, [reqs[s] EXCEPT !.from = 0])
                /\ cli' = [cli EXCEPT ![c].pc = "done", ![c].slot = 0]
                /\ message' = IF cli[c].op = "create" THEN MsgCreateFailed ELSE message
                /\ UNCHANGED nreq
    /\ UNCHANGED <<variant, memVars, bound, rendered, form, srv, db, acked>>

\* The GET's response arrives in loadPosts(): render the posts; docs.map
\* throws on the { message } body of a 500.  handleCreatePost then resets
\* the form.
CliLoaded(c) ==
    /\ variant = "browser"
    /\ cli[c].pc = "load"
    /\ reqs[cli[c].slot].pc = "done"
    /\ LET s == cli[c].slot
       IN  /\ reqs' = Put(s, [reqs[s] EXCEPT !.from = 0])
           /\ IF reqs[s].status = 200
              THEN /\ rendered' = FromDTOs(reqs[s].out)
                   /\ form' = IF cli[c].op = "create" THEN <<"", "">> ELSE form
                   /\ cli' = [cli EXCEPT ![c].pc = "done", ![c].slot = 0]
              ELSE /\ cli' = [cli EXCEPT ![c].pc = "threw", ![c].slot = 0]
                   /\ UNCHANGED <<rendered, form>>
    /\ UNCHANGED <<variant, memVars, bound, message, srv, db, nreq, acked>>

\* AppView.render(posts): the children of the feed element, the one
\* "empty" paragraph for an empty list, else one card per post with its
\* three reaction buttons.
EmptyState == <<[class |-> "empty", text |-> "No posts yet. Add one!"]>>

createPostElement(post) ==
    [class |-> "post-card", imageUrl |-> post.imageUrl, caption |-> post.caption,
     buttons |-> [k \in {"like", "wow", "laugh"} |->
                    [postId |-> post.id, reaction |-> k,
                     count |-> post.reactions[k]]]]

render(list) ==
    IF Len(list) = 0
    THEN EmptyState
    ELSE [i \in 1 .. Len(list) |-> createPostElement(list[i])]

RenderedIds == {rendered[i].id : i \in 1 .. Len(rendered)}

----------------------------------------------------------------------------

Init ==
    /\ variant \in {"memory", "server", "browser"}
    /\ posts = <<>>
    /\ nextId = 1
    /\ bound = FALSE
    /\ message = ""
    /\ rendered = <<>>
    /\ form = <<"", "">>
    /\ calls = 0
    /\ srv = "connecting"
    /\ db \in IF variant = "memory" THEN {<<>>} ELSE StoredAtStart
    /\ reqs = [s \in Slots |-> IdleReq]
    /\ nreq = 0
    /\ acked = NoAcks
    /\ cli = [c \in Clients |-> IdleCall]

\* The server's react handlers in flight (between findById and the response).
ReactsInFlight == {s \in Slots : reqs[s].pc \in {"findById", "save"}}

\* Every step of the three deployments.  With oneAtATime, a react call is
\* not started while another react handler is in flight.
Step(oneAtATime) ==
    \/ MemInit
    \/ \E u \in ImageUrls, c \in Captions : MemHandleCreatePost(u, c)
    \/ \E id \in 1 .. (nextId + 1), k \in ReactionTypes : MemHandleReact(id, k)
    \/ StartListen
    \/ StartFail
    \/ \E s \in Slots : HttpList(s)
    \/ \E s \in Slots, body \in CreateBodies : HttpCreate(s, body)
    \/ \E s \in Slots, id \in ParamIds, body \in ReactBodies :
         (oneAtATime => ReactsInFlight = {}) /\ HttpReact(s, id, body)
    \/ \E s \in Slots, ok \in BOOLEAN : ListResolve(s, ok)
    \/ \E s \in Slots, ok \in BOOLEAN : CreateResolve(s, ok)
    \/ \E s \in Slots, ok \in BOOLEAN : FindByIdResolve(s, ok)
    \/ \E s \in Slots, ok \in BOOLEAN : SaveResolve(s, ok)
    \/ \E c \in Clients, s \in Slots : CliInit(c, s)
    \/ \E c \in Clients, s \in Slots, u \in ImageUrls, cap \in Captions :
         CliHandleCreatePost(c, s, u, cap)
    \/ \E c \in Clients, s \in Slots, id \in RenderedIds, k \in ReactionTypes :
         (oneAtATime => ReactsInFlight = {}) /\ CliHandleReact(c, s, id, k)
    \/ \E c \in Clients : CliPosted(c)
    \/ \E c \in Clients : CliLoaded(c)

Next == Step(FALSE)

Spec == Init /\ [][Next]_vars

\* React calls executed one at a time.
SeqNext == Step(TRUE)

SeqSpec == Init /\ [][SeqNext]_vars

\* The store call a handler awaits settles: it returns or it fails.
Settle(s) ==
    \E ok \in BOOLEAN :
        \/ ListResolve(s, ok)
        \/ CreateResolve(s, ok)
        \/ FindByIdResolve(s, ok)
        \/ SaveResolve(s, ok)

\* Every store call eventually settles.
FairSpec == Spec /\ \A s \in Slots : WF_vars(Settle(s))

----------------------------------------------------------------------------
(* Properties *)

AckCount(id, k) == IF id \in DOMAIN acked THEN acked[id][k] ELSE 0

\* The counters a post starts with: the seed's for the two demo posts, zero
\* for every created post.
InitialCount(id, k) ==
    IF variant = "memory" /\ id \in 1 .. Len(seed(1)) THEN seed(1)[id].reactions[k] ELSE 0

\* C1: in the server, once no react handler is in flight, every counter of
\* every post equals its initial value (zero) plus the number of react
\* requests of that kind on that post that were answered 200.
C1_NoLostIncrement ==
    (ReactsInFlight = {}) =>
        \A i \in 1 .. Len(db) : \A k \in ReactionTypes :
            db[i].reactions[k] = AckCount(db[i]._id, k)

\* C2: no step makes a counter of an existing post smaller, in the
\* in-memory feed or in the server's collection.
C2_CountersNeverDecrease ==
    [][/\ \A i \in 1 .. Len(posts) : \A j \in 1 .. Len(posts') :
            posts'[j].id = posts[i].id =>
                \A k \in ReactionTypes :
                    posts'[j].reactions[k] >= posts[i].reactions[k]
       /\ \A i \in 1 .. Len(db) : \A j \in 1 .. Len(db') :
            db'[j]._id = db[i]._id =>
                \A k \in ReactionTypes :
                    db'[j].reactions[k] >= db[i].reactions[k]]_vars

\* C3: with react calls executed one at a time, every counter of every post
\* equals its initial value plus the number of successful react calls of that
\* kind on that post: each successful call adds exactly one to its counter
\* and nothing to the other two, and N identical calls add N.
C3_SequentialReactCounts ==
    /\ \A i \in 1 .. Len(posts) : \A k \in ReactionTypes :
          posts[i].reactions[k] =
              InitialCount(posts[i].id, k) + AckCount(posts[i].id, k)
    /\ \A i \in 1 .. Len(db) : \A k \in ReactionTypes :
          db[i].reactions[k] = InitialCount(db[i]._id, k) + AckCount(db[i]._id, k)
    /\ \A s \in Slots :
          (reqs[s].route = "react" /\ reqs[s].status = 200) =>
              /\ reqs[s].out.reactions[reqs[s].body["reaction"]] >= 1
              /\ reqs[s].out._id = reqs[s].id

\* C3 witness: two identical react calls on a created post gave count two,
\* in the in-memory feed.
C3_Witness ==
    \E i \in 1 .. Len(posts) :
        /\ posts[i].id > Len(seed(1))
        /\ posts[i].reactions = [like |-> 0, wow |-> 2, laugh |-> 0]
        /\ AckCount(posts[i].id, "wow") = 2

\* An :id names no post of the collection.
NamesNoPost(id) ==
    ~IsObjectIdString(id) \/ findById(db, CastObjectId(id)) = NoDoc

\* C4: a react request with a valid kind whose id names no post, the store
\* answering, is answered 404 "Post not found" without a write.
C4_UnknownIdIs404 ==
    \A s \in Slots :
        (/\ reqs[s].route = "react"
         /\ reqs[s].pc = "done"
         /\ ValidReaction(reqs[s].body)
         /\ NamesNoPost(reqs[s].id)
         /\ reqs[s].err /= "StoreError") =>
            /\ reqs[s].status = 404
            /\ reqs[s].out = MsgNotFound
            /\ reqs[s].ops = 1

\* C5: a react request whose kind is missing or not one of the three is
\* answered 400 "Invalid reaction type" in the step that takes it, whatever
\* its id, and has issued no store call.
C5_InvalidKindIs400 ==
    \A s \in Slots :
        (/\ reqs[s].route = "react"
         /\ \/ ~Has(reqs[s].body, "reaction")
            \/ reqs[s].body["reaction"] \notin {"like", "wow", "laugh"}) =>
            /\ reqs[s].pc = "done"
            /\ reqs[s].status = 400
            /\ reqs[s].out = MsgInvalid
            /\ reqs[s].ops = 0
            /\ reqs[s].sent = 1
            /\ reqs[s].doc = NoDoc

\* C5 witness: an invalid kind sent for the id of an existing post.
C5_Witness ==
    \E s \in Slots :
        /\ reqs[s].route = "react"
        /\ reqs[s].status = 400
        /\ Has(reqs[s].body, "reaction")
        /\ ~NamesNoPost(reqs[s].id)


\* C6: a create call with an empty imageUrl or caption is rejected and
\* changes no store: the in-memory handler shows the message and leaves
\* posts and nextId alone, the client's handler shows the message and sends
\* no request, and the server route answers 400 with its message in the step
\* that takes the request, without a store call.
C6_EmptyCreateRejected ==
    [][/\ \A u \in ImageUrls, c \in Captions :
            (u = "" \/ c = "") =>
                /\ MemHandleCreatePost(u, c) =>
                     /\ posts' = posts
                     /\ nextId' = nextId
                     /\ message' = MsgRequired
                /\ \A cl \in Clients, s \in Slots :
                     CliHandleCreatePost(cl, s, u, c) =>
                        /\ reqs' = reqs
                        /\ nreq' = nreq
                        /\ db' = db
                        /\ message' = MsgRequired
       /\ \A s \in Slots, body \in CreateBodies :
            (/\ \/ ~Has(body, "imageUrl") \/ body["imageUrl"] = ""
                \/ ~Has(body, "caption") \/ body["caption"] = ""
             /\ HttpCreate(s, body)) =>
                /\ reqs'[s].pc = "done"
                /\ reqs'[s].status = 400
                /\ reqs'[s].out = MsgMissing
                /\ reqs'[s].ops = 0
                /\ db' = db]_vars

\* C6 witness: the in-memory handler has rejected a create with an empty
\* imageUrl after an earlier create succeeded.
C6_Witness ==
    /\ variant = "memory"
    /\ message = MsgRequired
    /\ form = <<"", "hello">>
    /\ Len(posts) = Len(seed(1)) + 1

\* C7: a create call with both fields non-empty adds exactly one post that
\* has those two fields, an id no other post has and three zero counters
\* (whatever else the request body holds), and the list operation returns
\* every post of the store; the only other outcome of the server route is a
\* 500 when the store call fails.
C7_ValidCreateStored ==
    [][/\ \A u \in ImageUrls, c \in Captions :
            (u /= "" /\ c /= "" /\ MemHandleCreatePost(u, c)) =>
                /\ Len(posts') = Len(posts) + 1
                /\ \E j \in 1 .. Len(posts') :
                     /\ posts'[j].imageUrl = u
                     /\ posts'[j].caption = c
                     /\ posts'[j].reactions = [like |-> 0, wow |-> 0, laugh |-> 0]
                     /\ \A i \in 1 .. Len(posts) : posts[i].id /= posts'[j].id
                /\ rendered' = posts'
       /\ \A s \in Slots :
            (reqs'[s].route = "create" /\ reqs'[s].pc = "done"
                /\ Has(reqs'[s].body, "imageUrl") /\ reqs'[s].body["imageUrl"] /= ""
                /\ Has(reqs'[s].body, "caption") /\ reqs'[s].body["caption"] /= "") =>
                /\ reqs[s].pc \in {"create", "done"}
                /\ reqs[s].pc = "create" =>
                     \/ /\ reqs'[s].status = 500
                        /\ reqs'[s].err = "StoreError"
                        /\ db' = db
                     \/ /\ reqs'[s].status = 201
                        /\ Len(db') = Len(db) + 1
                        /\ \A i \in 1 .. Len(db) :
                             db'[i] = db[i] /\ db[i]._id /= db'[Len(db')]._id
                        /\ db'[Len(db')].imageUrl = reqs[s].body["imageUrl"]
                        /\ db'[Len(db')].caption = reqs[s].body["caption"]
                        /\ db'[Len(db')].reactions = [like |-> 0, wow |-> 0, laugh |-> 0]
                        /\ reqs'[s].out =
                             [_id |-> toString(db'[Len(db')]._id),
                              imageUrl |-> reqs[s].body["imageUrl"],
                              caption |-> reqs[s].body["caption"],
                              reactions |-> [like |-> 0, wow |-> 0, laugh |-> 0]]
       /\ \A s \in Slots :
            (reqs[s].pc = "find" /\ reqs'[s].status = 200) =>
                /\ Len(reqs'[s].out) = Len(db)
                /\ \A i \in 1 .. Len(db) :
                     /\ reqs'[s].out[i]._id = toString(db[i]._id)
                     /\ reqs'[s].out[i].imageUrl = db[i].imageUrl
                     /\ reqs'[s].out[i].caption = db[i].caption
                     /\ reqs'[s].out[i].reactions = db[i].reactions]_vars

\* C7 witness: a list has returned, with zero counters, the post the server
\* created from a body that also carried reaction counts (the only body
\* an HTTP caller sends with this imageUrl and a caption).
C7_Witness ==
    \E s \in Slots :
        /\ variant = "server"
        /\ reqs[s].route = "list"
        /\ reqs[s].status = 200
        /\ Len(reqs[s].out) = Len(db)
        /\ \E i \in 1 .. Len(db) :
             /\ db[i]._id > 1
             /\ reqs[s].out[i] =
                  [_id |-> toString(db[i]._id),
                   imageUrl |-> "https://x/a.png",
                   caption |-> "hello",
                   reactions |-> [like |-> 0, wow |-> 0, laugh |-> 0]]

\* C8: in the in-memory controller no two posts of the feed share an id,
\* nextId is one more than the number of posts constructed since it was 1,
\* and every id in the feed is at least 1 and less than nextId.
C8_UniqueIds ==
    /\ \A i, j \in 1 .. Len(posts) : posts[i].id = posts[j].id => i = j
    /\ nextId = Len(posts) + 1
    /\ \A i \in 1 .. Len(posts) : posts[i].id \in 1 .. (nextId - 1)

\* C8 witness: two posts were created after the two seed posts.
C8_Witness ==
    /\ Len(posts) = Len(seed(1)) + 2
    /\ nextId = 5

WellFormed(reactions) ==
    /\ DOMAIN reactions = {"like", "wow", "laugh"}
    /\ \A k \in DOMAIN reactions : reactions[k] \in Nat

\* C9: every post held anywhere (the in-memory feed, the collection, a
\* handler's loaded document, a response, the rendered list) has exactly the
\* three counters, each a natural number.
C9_ThreeCounters ==
    /\ \A i \in 1 .. Len(posts) : WellFormed(posts[i].reactions)
    /\ \A i \in 1 .. Len(db) : WellFormed(db[i].reactions)
    /\ \A i \in 1 .. Len(rendered) : WellFormed(rendered[i].reactions)
    /\ \A s \in Slots :
         /\ reqs[s].doc /= NoDoc => WellFormed(reqs[s].doc.reactions)
         /\ (reqs[s].route \in {"create", "react"} /\ Ok(reqs[s].status)) =>
                WellFormed(reqs[s].out.reactions)
         /\ (reqs[s].route = "list" /\ Ok(reqs[s].status)) =>
                \A i \in 1 .. Len(reqs[s].out) : WellFormed(reqs[s].out[i].reactions)

\* C9 witness: a created post of the collection has been reacted to and read
\* back by the browser client.
C9_Witness ==
    /\ Len(db) >= 1
    /\ db[1].reactions = [like |-> 0, wow |-> 0, laugh |-> 1]
    /\ Len(rendered) >= 1
    /\ rendered[1].reactions = db[1].reactions

\* C10: every post of a store is in the store after every step, with the
\* same id, imageUrl and caption.
C10_PostsNeverRemoved ==
    [][/\ \A i \in 1 .. Len(posts) : \E j \in 1 .. Len(posts') :
            /\ posts'[j].id = posts[i].id
            /\ posts'[j].imageUrl = posts[i].imageUrl
            /\ posts'[j].caption = posts[i].caption
       /\ \A i \in 1 .. Len(db) : \E j \in 1 .. Len(db') :
            /\ db'[j]._id = db[i]._id
            /\ db'[j].imageUrl = db[i].imageUrl
            /\ db'[j].caption = db[i].caption]_vars

\* C10 witness: the first seed post is still in the feed, last, after two
\* creates and a reaction to it.
C10_Witness ==
    /\ Len(posts) = Len(seed(1)) + 2
    /\ posts[Len(posts)].id = 2
    /\ posts[Len(posts) - 1].id = 1
    /\ posts[Len(posts) - 1].caption = "Decorated christmas tree"
    /\ AckCount(1, "like") = 1

\* The ids of the two demo posts.
SeedIds == {seed(1)[i].id : i \in 1 .. Len(seed(1))}

\* C11 as stated: once init() has run, of any two posts of the in-memory
\* feed the one with the larger id comes first.
C11_NewestFirst ==
    (variant = "memory" /\ bound) =>
        \A i, j \in 1 .. Len(posts) : i < j => posts[i].id > posts[j].id

\* C11 amended: after every step of the in-memory controller, of any two
\* posts of the feed of which at least one was created by handleCreatePost
\* the one with the larger id comes first, and the two demo posts keep their
\* seed order (id 1 before id 2); a successful create puts the new post at
\* the head and keeps the order of all the others.
C11_CreatedNewestFirst ==
    [][/\ \A i, j \in 1 .. Len(posts') :
            i < j =>
                IF posts'[i].id \in SeedIds /\ posts'[j].id \in SeedIds
                THEN posts'[i].id < posts'[j].id
                ELSE posts'[i].id > posts'[j].id
       /\ \A u \in ImageUrls, c \in Captions :
            (u /= "" /\ c /= "" /\ MemHandleCreatePost(u, c)) =>
                /\ Len(posts') = Len(posts) + 1
                /\ posts'[1].id = nextId
                /\ \A i \in 1 .. Len(posts) : posts'[i + 1] = posts[i]]_vars

\* C11 witness: two posts were created after init; they head the feed,
\* newest first, before the demo posts.
C11_Witness ==
    /\ Len(posts) = 4
    /\ posts[1].id = 4
    /\ posts[2].id = 3
    /\ posts[3].id = 1
    /\ posts[4].id = 2

\* C12: every failing create or react call ends with a message shown to the
\* user: after the step in which the in-memory handler rejects an empty
\* field or finds no post with the id, in which the client's handler rejects
\* an empty field, or in which the client's handler reads a response that is
\* not ok, the message element holds a text.
C12_FailuresShown ==
    [][/\ \A u \in ImageUrls, c \in Captions :
            (u = "" \/ c = "") =>
                /\ MemHandleCreatePost(u, c) => message' /= ""
                /\ \A cl \in Clients, s \in Slots :
                     CliHandleCreatePost(cl, s, u, c) => message' /= ""
       /\ \A id \in 1 .. (nextId + 1), k \in ReactionTypes :
            (MemHandleReact(id, k) /\ FindIndex(posts, id) = 0) => message' /= ""
       /\ \A cl \in Clients :
            (CliPosted(cl) /\ ~Ok(reqs[cli[cl].slot].status)) => message' /= ""]_vars

\* C13: the step in which a store call of a route fails (find, create,
\* findById or save) answers that request 500 "Server error", once, issues
\* no further store call for it and leaves the collection as it is; a
\* request answered so has made one store call (list, create, a failed
\* findById) or two (a failed save), never more.
C13_StoreFailureIs500 ==
    [][\A s \in Slots :
          (\/ ListResolve(s, FALSE)
           \/ CreateResolve(s, FALSE)
           \/ FindByIdResolve(s, FALSE)
           \/ SaveResolve(s, FALSE)) =>
              /\ reqs'[s].pc = "done"
              /\ reqs'[s].status = 500
              /\ reqs'[s].out = [message |-> "Server error"]
              /\ reqs'[s].sent = 1
              /\ reqs'[s].ops = reqs[s].ops
              /\ reqs'[s].ops = IF reqs[s].pc = "save" THEN 2 ELSE 1
              /\ db' = db
              /\ acked' = acked]_vars

\* C13 witness: a react's save failed after its findById succeeded; the
\* route answered 500 and the stored counter is still below the one of the
\* handler's document.
C13_Witness ==
    \E s \in Slots :
        /\ reqs[s].route = "react"
        /\ reqs[s].status = 500
        /\ reqs[s].ops = 2
        /\ reqs[s].doc /= NoDoc
        /\ findById(db, reqs[s].doc._id).reactions[reqs[s].body["reaction"]]
             < reqs[s].doc.reactions[reqs[s].body["reaction"]]

\* C14: a request taken by one of the three routes is answered exactly once:
\* no request is ever answered twice, a finished handler has answered, a
\* handler that has not finished has not answered, and, every store call
\* settling, every request a route has taken is eventually answered.
C14_ExactlyOneResponse ==
    /\ [](\A s \in Slots :
            /\ reqs[s].sent <= 1
            /\ reqs[s].pc = "done" => reqs[s].sent = 1
            /\ reqs[s].pc /= "done" => reqs[s].sent = 0)
    /\ \A s \in Slots :
         (reqs[s].pc \in {"find", "create", "findById", "save"})
             ~> (reqs[s].pc = "done" /\ reqs[s].sent = 1)

\* C14 witness: a react request went through both of its store calls and
\* was answered once.
C14_Witness ==
    \E s \in Slots :
        /\ reqs[s].route = "react"
        /\ reqs[s].pc = "done"
        /\ reqs[s].ops = 2
        /\ reqs[s].status = 200
        /\ reqs[s].sent = 1

\* C15: the list route, its store call succeeding on a collection without
\* posts, answers 200 with the empty array, and the client, reading that
\* answer, renders the "empty" paragraph and shows no message for it.
C15_EmptyList ==
    [][/\ \A s \in Slots :
            (ListResolve(s, TRUE) /\ Len(db) = 0) =>
                /\ reqs'[s].status = 200
                /\ reqs'[s].out = <<>>
       /\ \A c \in Clients :
            (CliLoaded(c) /\ Len(db) = 0 /\ reqs[cli[c].slot].err = "") =>
                /\ rendered' = <<>>
                /\ render(rendered') =
                     <<[class |-> "empty", text |-> "No posts yet. Add one!"]>>
                /\ message' = message
                /\ cli'[c].pc = "done"]_vars

\* C15 witness: the client's init() has finished against an empty
\* collection: the feed shows the empty state and no message.
C15_Witness ==
    /\ variant = "browser"
    /\ \E c \in Clients : cli[c].op = "init" /\ cli[c].pc = "done"
    /\ Len(db) = 0
    /\ render(rendered) = EmptyState
    /\ message = ""

\* A value has exactly the four fields of a PostDTO: the id as the string
\* of an ObjectId, imageUrl, caption, and the three counts.
IsPostDTO(d) ==
    /\ DOMAIN d = {"_id", "imageUrl", "caption", "reactions"}
    /\ IsObjectIdString(d._id)
    /\ DOMAIN d.reactions = {"like", "wow", "laugh"}

\* C16: the body of every 2xx answer of the create and react routes is a
\* PostDTO of exactly four fields, and the body of every 200 answer of the
\* list route is a sequence of them: no __v, no ObjectId.
C16_DTOFourFields ==
    \A s \in Slots :
        /\ (reqs[s].route \in {"create", "react"} /\ reqs[s].status \in {200, 201}) =>
              IsPostDTO(reqs[s].out)
        /\ (reqs[s].route = "list" /\ reqs[s].status = 200) =>
              \A i \in 1 .. Len(reqs[s].out) : IsPostDTO(reqs[s].out[i])

\* C16 witness: the list route has returned two posts, one of them reacted
\* to, from documents that carry the version key.
C16_Witness ==
    \E s \in Slots :
        /\ reqs[s].route = "list"
        /\ reqs[s].status = 200
        /\ Len(reqs[s].out) = 2
        /\ \E i \in 1 .. 2 : reqs[s].out[i].reactions /= ZeroReactions
        /\ \A i \in 1 .. Len(db) : "__v" \in DOMAIN db[i]

\* C17: a successful react changes one counter of one post and nothing
\* else.  The in-memory handler, finding the post, leaves nextId, the number
\* and order of the posts, every other post, and the target's id, imageUrl,
\* caption and two other counters as they are; so does, for the collection,
\* the step in which the server's save succeeds.
C17_ReactFrame ==
    [][/\ \A id \in 1 .. (nextId + 1), k \in ReactionTypes :
            (MemHandleReact(id, k) /\ FindIndex(posts, id) /= 0) =>
                /\ nextId' = nextId
                /\ Len(posts') = Len(posts)
                /\ \A i \in 1 .. Len(posts) :
                     /\ posts[i].id /= id => posts'[i] = posts[i]
                     /\ posts'[i].id = posts[i].id
                     /\ posts'[i].imageUrl = posts[i].imageUrl
                     /\ posts'[i].caption = posts[i].caption
                     /\ DOMAIN posts'[i].reactions = DOMAIN posts[i].reactions
                     /\ \A j \in ReactionTypes \ {k} :
                          posts'[i].reactions[j] = posts[i].reactions[j]
       /\ \A s \in Slots :
            SaveResolve(s, TRUE) =>
                /\ Len(db') = Len(db)
                /\ \A i \in 1 .. Len(db) :
                     /\ toString(db[i]._id) /= reqs[s].id => db'[i] = db[i]
                     /\ db'[i]._id = db[i]._id
                     /\ db'[i].imageUrl = db[i].imageUrl
                     /\ db'[i].caption = db[i].caption
                     /\ DOMAIN db'[i] = DOMAIN db[i]
                     /\ DOMAIN db'[i].reactions = DOMAIN db[i].reactions
                     /\ \A j \in ReactionTypes \ {reqs[s].body["reaction"]} :
                          db'[i].reactions[j] = db[i].reactions[j]]_vars

\* C17 witness: of two stored posts the second was reacted to with "wow";
\* the first is as it was created.
C17_Witness ==
    /\ Len(db) = 2
    /\ db[1].reactions = ZeroReactions
    /\ db[2].reactions = [like |-> 0, wow |-> 1, laugh |-> 0]
    /\ \E s \in Slots :
         /\ reqs[s].route = "react"
         /\ reqs[s].status = 200
         /\ reqs[s].id = toString(2)

\* No handler of the client is running and the server holds no request.
Quiescent ==
    /\ \A c \in Clients : Resting(c)
    /\ \A s \in Slots : reqs[s].pc \in {"idle", "done"}

\* C18: in the client/server controller, once init() has been called and
\* nothing is in flight, the list last passed to render is the content of
\* the collection; stated for the runs in which no loadPosts threw and the
\* last answers were not store failures.
C18_RenderedIsStore ==
    (/\ variant = "browser"
     /\ bound
     /\ Quiescent
     /\ \A c \in Clients : cli[c].pc /= "threw"
     /\ \A s \in Slots : reqs[s].err = "") =>
        rendered = FromDTOs(DTOs(db))

\* C19: in the client/server controller the form is reset only in the step
\* in which a handleCreatePost whose POST was answered ok reads its
\* re-fetched list and renders it; a handleCreatePost enters that re-fetch
\* only from an ok answer to its POST; and the step in which it rejects an
\* empty field, or reads an answer that is not ok, ends the handler and
\* leaves the rendered list and the typed input as they are.
C19_ResetAfterRender ==
    [][(variant = "browser") =>
        /\ (form' /= form /\ form' = <<"", "">>) =>
              \/ \E c \in Clients :
                    /\ CliLoaded(c)
                    /\ cli[c].op = "create"
                    /\ reqs[cli[c].slot].route = "list"
                    /\ reqs[cli[c].slot].status = 200
                    /\ rendered' = FromDTOs(reqs[cli[c].slot].out)
              \/ \E c \in Clients, s \in Slots :
                    CliHandleCreatePost(c, s, "", "")
        /\ \A c \in Clients :
              (cli[c].pc /= "load" /\ cli'[c].pc = "load" /\ cli'[c].op = "create") =>
                  /\ cli[c].pc = "post"
                  /\ reqs[cli[c].slot].route = "create"
                  /\ Ok(reqs[cli[c].slot].status)
        /\ \A c \in Clients, s \in Slots, u \in ImageUrls, cap \in Captions :
              ((u = "" \/ cap = "") /\ CliHandleCreatePost(c, s, u, cap)) =>
                  /\ rendered' = rendered
                  /\ form' = <<u, cap>>
                  /\ cli'[c].pc = "done"
        /\ \A c \in Clients :
              (CliPosted(c) /\ cli[c].op = "create"
                  /\ ~Ok(reqs[cli[c].slot].status)) =>
                  /\ rendered' = rendered
                  /\ form' = form
                  /\ cli'[c].pc = "done"]_vars

\* C19 witness: a handleCreatePost has finished with the created post
\* rendered and the form reset.
C19_Witness ==
    /\ variant = "browser"
    /\ \E c \in Clients : cli[c].op = "create" /\ cli[c].pc = "done"
    /\ form = <<"", "">>
    /\ message = ""
    /\ Len(db) = 2
    /\ rendered = FromDTOs(DTOs(db))

\* C20: the server listens only once connectDB() has completed.  While
\* start() has not reached listen, no route has taken a request and no step
\* takes one or touches the collection; listening is entered only from the
\* awaited connectDB(), and a start() whose connectDB() failed stays failed.
C20_ListenAfterConnect ==
    /\ [](srv /= "listening" =>
            /\ nreq = 0
            /\ \A s \in Slots : reqs[s].pc = "idle" /\ reqs[s].route = "none")
    /\ [][/\ srv = "failed" => srv' = "failed"
          /\ (srv /= "listening" /\ srv' = "listening") => srv = "connecting"
          /\ srv /= "listening" => (reqs' = reqs /\ nreq' = nreq /\ db' = db)]_vars

\* C20 witness: connectDB() completed, the server listens and has answered
\* a request.
C20_Witness ==
    /\ srv = "listening"
    /\ nreq >= 1
    /\ \E s \in Slots : reqs[s].pc = "done" /\ reqs[s].status = 200

====
